---- MODULE Spec2Model ----
(***************************************************************************)
(* Model of aggregate_results.py: parse_summary, _pick_col,                *)
(* parse_power_csv and main.                                               *)
(*                                                                         *)
(* Representation.  File names, CSV headers and tokens to be searched in   *)
(* them are sequences of one-character strings, so that prefix, suffix and *)
(* substring tests are computed.  An optional value (Python None or a      *)
(* value) is the empty sequence or a one-element sequence.  A float is an  *)
(* integer (every literal of the input sets is integral); the mean and the *)
(* fallback product are exact rationals [num, den].  Floating-point        *)
(* rounding and the non-finite floats are outside the model.               *)
(***************************************************************************)
EXTENDS Integers, Sequences, FiniteSets

VARIABLES
    path,           \* parse_summary / parse_power_csv: the file name being parsed
    out,            \* parse_summary / parse_power_csv: the dict being filled
    pc,             \* position in the function under study
    section,        \* parse_summary: current section
    line,           \* parse_summary: the line read last
    nlines,         \* parse_summary: number of lines read
    headers,        \* _pick_col / parse_power_csv: reader.fieldnames
    must_contain_any,   \* _pick_col argument
    prefer_contain_any, \* _pick_col argument
    picked,         \* _pick_col return value
    power_col,      \* parse_power_csv local
    time_col,       \* parse_power_csv local
    times,          \* parse_power_csv local
    powers,         \* parse_power_csv local
    rowsRead,       \* parse_power_csv: the rows the reader has yielded so far
    files,          \* main: the logs directory, file name -> content
    summary_files,  \* main local
    power_files,    \* main local
    rows,           \* main local
    done,           \* main: number of summary files processed by the loop
    opened,         \* main: names of the files whose content has been read
    runs,           \* number of earlier runs of main on this directory
    prevOutput      \* main: what OUTPUT_CSV held when the run started

vars == <<path, out, pc, section, line, nlines, headers, must_contain_any,
          prefer_contain_any, picked, power_col, time_col, times, powers,
          rowsRead, files, summary_files, power_files, rows, done, opened,
          runs, prevOutput>>

summaryVars == <<section, line, nlines>>
pickVars == <<must_contain_any, prefer_contain_any, picked>>
powerVars == <<power_col, time_col, times, powers, rowsRead>>
mainVars == <<files, summary_files, power_files, rows, done, opened, runs, prevOutput>>

----------------------------------------------------------------------------
(* Optional values and small helpers *)

None == <<>>

Some(v) == <<v>>

Val(o) == o[1]

Idle == "idle"

\* how a call ends: `raise ValueError(...)` or `return v`
Raised == [raised |-> TRUE]

Returned(v) == [raised |-> FALSE, value |-> v]

StartsWith(s, p) == Len(s) >= Len(p) /\ SubSeq(s, 1, Len(p)) = p

EndsWith(s, p) == Len(s) >= Len(p) /\ SubSeq(s, Len(s) - Len(p) + 1, Len(s)) = p

\* Python's `tok in s` for strings: tok occurs in s as a contiguous substring
Contains(s, tok) ==
    \E k \in 0..(Len(s) - Len(tok)) : SubSeq(s, k + 1, k + Len(tok)) = tok

MinOf(S) == CHOOSE x \in S : \A y \in S : x <= y

----------------------------------------------------------------------------
(* File names: SUMMARY_RE, POWER_RE and the glob patterns of main *)

Modes == {<<"A","2","B">>, <<"B","2","A">>, <<"B","O","T","H">>}

\* ReMatch with the run_id group written .*? : an empty run_id matches
ReMatchEmptyRunId(name, prefix, ext) ==
    LET fits(k, mo) ==
            /\ Len(name) = Len(prefix) + k + 1 + Len(mo) + Len(ext)
            /\ name = prefix \o SubSeq(name, Len(prefix) + 1, Len(prefix) + k)
                             \o <<"_">> \o mo \o ext
        cands == {k \in 0..Len(name) : \E mo \in Modes : fits(k, mo)}
    IN  IF cands = {} THEN None
        ELSE LET k == MinOf(cands)
             IN  Some([run_id |-> SubSeq(name, Len(prefix) + 1, Len(prefix) + k),
                       mode |-> CHOOSE mo \in Modes : fits(k, mo)])

\* re.match of ^<prefix>(?P<run_id>.+?)_(?P<mode>A2B|B2A|BOTH)<ext>$ :
\* the shortest non-empty run_id for which the rest of the name matches.
ReMatch(name, prefix, ext) ==
    LET fits(k, mo) ==
            /\ Len(name) = Len(prefix) + k + 1 + Len(mo) + Len(ext)
            /\ name = prefix \o SubSeq(name, Len(prefix) + 1, Len(prefix) + k)
                             \o <<"_">> \o mo \o ext
        cands == {k \in 1..Len(name) : \E mo \in Modes : fits(k, mo)}
    IN  IF cands = {} THEN None
        ELSE LET k == MinOf(cands)
             IN  Some([run_id |-> SubSeq(name, Len(prefix) + 1, Len(prefix) + k),
                       mode |-> CHOOSE mo \in Modes : fits(k, mo)])

SUMMARY_RE(name) == ReMatch(name, <<"s","u","m","m","a","r","y","_">>, <<".","t","x","t">>)

POWER_RE(name) == ReMatch(name, <<"r","u","n","_">>, <<".","c","s","v">>)

\* Path.glob("<prefix>*_*<ext>")
GlobMatch(name, prefix, ext) ==
    /\ StartsWith(name, prefix)
    /\ EndsWith(name, ext)
    /\ Len(name) >= Len(prefix) + Len(ext) + 1
    /\ Contains(SubSeq(name, Len(prefix) + 1, Len(name) - Len(ext)), <<"_">>)

----------------------------------------------------------------------------
(* parse_summary *)

\* A text line is a sequence of tokens.  " " is white space, "A -> B" and
\* "B -> A" are the texts of the two section headers (written with an arrow
\* in the source), "dH:" is the delta-H prefix, a Literals token is a float
\* literal, anything else is other text.
Literals == {"3", "2", "1", "-2", "5", "9"}

\* float(m.group(1))
LiteralValue(tok) ==
    CASE tok = "3" -> 3
      [] tok = "2" -> 2
      [] tok = "1" -> 1
      [] tok = "-2" -> -2
      [] tok = "5" -> 5
      [] tok = "9" -> 9

RECURSIVE LStrip(_)
LStrip(l) == IF l # <<>> /\ Head(l) = " " THEN LStrip(Tail(l)) ELSE l

RECURSIVE RStrip(_)
RStrip(l) ==
    IF l # <<>> /\ l[Len(l)] = " " THEN RStrip(SubSeq(l, 1, Len(l) - 1)) ELSE l

\* str.strip()
Strip(l) == RStrip(LStrip(l))

\* FLOAT_RE.search(line): the leftmost float literal of the line, if any
_extract_float(l) ==
    LET hits == {k \in 1..Len(l) : l[k] \in Literals}
    IN  IF hits = {} THEN None ELSE Some(LiteralValue(l[MinOf(hits)]))

\* the dict parse_summary starts from
SummaryOut(m, name) ==
    [run_id |-> m.run_id, mode |-> m.mode,
     H_before_A2B_bits |-> None, H_after_A2B_bits |-> None,
     delta_H_A2B_bits |-> None,
     H_before_B2A_bits |-> None, H_after_B2A_bits |-> None,
     delta_H_B2A_bits |-> None,
     order_effect_bits |-> None,
     summary_file |-> name]

\* `section` after one pass through the loop body
ScanSection(sec, l) ==
    LET line_stripped == Strip(l)
    IN  IF line_stripped = <<"A -> B">> THEN "A2B"
        ELSE IF line_stripped = <<"B -> A">> THEN "B2A"
        ELSE sec

\* ScanOut with `else` in place of `elif section == "B2A"`: a line read
\* outside the A -> B section is stored in the B -> A fields
ScanOutElse(sec, o, l) ==
    LET line_stripped == Strip(l)
        v == _extract_float(line_stripped)
    IN  IF line_stripped = <<"A -> B">> \/ line_stripped = <<"B -> A">> THEN o
        ELSE IF line_stripped = <<>> THEN o
        ELSE IF line_stripped[1] = "H_before:" THEN
            IF sec = "A2B" THEN [o EXCEPT !.H_before_A2B_bits = v]
            ELSE [o EXCEPT !.H_before_B2A_bits = v]
        ELSE IF line_stripped[1] = "H_after:" THEN
            IF sec = "A2B" THEN [o EXCEPT !.H_after_A2B_bits = v]
            ELSE [o EXCEPT !.H_after_B2A_bits = v]
        ELSE IF line_stripped[1] = "dH:" THEN
            IF sec = "A2B" THEN [o EXCEPT !.delta_H_A2B_bits = v]
            ELSE [o EXCEPT !.delta_H_B2A_bits = v]
        ELSE IF line_stripped[1] = "Order Effect" THEN
            [o EXCEPT !.order_effect_bits = v]
        ELSE o

\* `out` after one pass through the loop body
ScanOut(sec, o, l) ==
    LET line_stripped == Strip(l)
        v == _extract_float(line_stripped)
    IN  IF line_stripped = <<"A -> B">> \/ line_stripped = <<"B -> A">> THEN o
        ELSE IF line_stripped = <<>> THEN o
        ELSE IF line_stripped[1] = "H_before:" THEN
            IF sec = "A2B" THEN [o EXCEPT !.H_before_A2B_bits = v]
            ELSE IF sec = "B2A" THEN [o EXCEPT !.H_before_B2A_bits = v]
            ELSE o
        ELSE IF line_stripped[1] = "H_after:" THEN
            IF sec = "A2B" THEN [o EXCEPT !.H_after_A2B_bits = v]
            ELSE IF sec = "B2A" THEN [o EXCEPT !.H_after_B2A_bits = v]
            ELSE o
        ELSE IF line_stripped[1] = "dH:" THEN
            IF sec = "A2B" THEN [o EXCEPT !.delta_H_A2B_bits = v]
            ELSE IF sec = "B2A" THEN [o EXCEPT !.delta_H_B2A_bits = v]
            ELSE o
        ELSE IF line_stripped[1] = "Order Effect" THEN
            [o EXCEPT !.order_effect_bits = v]
        ELSE o

\* DeriveOrderEffect with the operands of the subtraction exchanged
DeriveReversed(o) ==
    IF o.order_effect_bits = None
       /\ o.delta_H_A2B_bits # None /\ o.delta_H_B2A_bits # None
    THEN [o EXCEPT !.order_effect_bits =
              Some(Val(o.delta_H_B2A_bits) - Val(o.delta_H_A2B_bits))]
    ELSE o

\* the order-effect rule after the loop
DeriveOrderEffect(o) ==
    IF o.order_effect_bits = None
    THEN LET dA == o.delta_H_A2B_bits
             dB == o.delta_H_B2A_bits
         IN  IF dA # None /\ dB # None
             THEN [o EXCEPT !.order_effect_bits = Some(Val(dA) - Val(dB))]
             ELSE o
    ELSE o

\* the whole loop over a text, and the whole function on a matching name
RECURSIVE ScanText(_, _, _)
ScanText(sec, o, text) ==
    IF text = <<>> THEN o
    ELSE ScanText(ScanSection(sec, Head(text)), ScanOut(sec, o, Head(text)), Tail(text))

parse_summary(name, text) ==
    LET m == SUMMARY_RE(name)
    IN  IF m = None THEN Raised
        ELSE Returned(DeriveOrderEffect(ScanText("None", SummaryOut(Val(m), name), text)))

----------------------------------------------------------------------------
(* _pick_col *)

UpperCase == <<"A","B","C","D","E","F","G","H","I","J","K","L","M",
               "N","O","P","Q","R","S","T","U","V","W","X","Y","Z">>

LowerCase == <<"a","b","c","d","e","f","g","h","i","j","k","l","m",
               "n","o","p","q","r","s","t","u","v","w","x","y","z">>

LowerChar(c) ==
    IF \E i \in 1..Len(UpperCase) : UpperCase[i] = c
    THEN LowerCase[CHOOSE i \in 1..Len(UpperCase) : UpperCase[i] = c]
    ELSE c

\* str.lower()
Lower(h) == [i \in 1..Len(h) |-> LowerChar(h[i])]

\* any(tok in h_lower[h] for tok in toks)
AnyIn(toks, h) == \E tok \in toks : Contains(Lower(h), tok)

\* _pick_col without the preference step
PickFirstCandidate(hs, must, prefer) ==
    LET isCandidate(h) == AnyIn(must, h)
        candidates == SelectSeq(hs, isCandidate)
    IN  IF candidates = <<>> THEN None ELSE Some(candidates[1])

\* def _pick_col(headers, must_contain_any, prefer_contain_any=())
_pick_col(hs, must, prefer) ==
    LET isCandidate(h) == AnyIn(must, h)
        candidates == SelectSeq(hs, isCandidate)
        isPreferred(h) == AnyIn(prefer, h)
        preferred == SelectSeq(candidates, isPreferred)
    IN  IF candidates = <<>> THEN None
        ELSE IF prefer # {} /\ preferred # <<>> THEN Some(preferred[1])
        ELSE Some(candidates[1])

\* the token sets parse_power_csv passes
TimeMust == {<<"e","l","a","p","s","e","d">>, <<"t","i","m","e">>}

TimePrefer == {<<"e","l","a","p","s","e","d"," ","t","i","m","e">>, <<"e","l","a","p","s","e","d">>}

PowerMust == {<<"p","o","w","e","r">>, <<"w","a","t","t">>}

PowerPrefer == {<<"p","a","c","k","a","g","e">>, <<"p","r","o","c","e","s","s","o","r">>, <<"c","p","u">>}

----------------------------------------------------------------------------
(* parse_power_csv *)

\* float(cell) on the cell texts of the input sets; None is ValueError
ParseFloat(cell) ==
    CASE cell = "0" -> Some(0)
      [] cell = "1" -> Some(1)
      [] cell = "2" -> Some(2)
      [] cell = "10" -> Some(10)
      [] cell = "20" -> Some(20)
      [] cell = "30" -> Some(30)
      [] cell = "-5" -> Some(-5)
      [] OTHER -> None

\* row[col] of the dict csv.DictReader builds from a line's cells: the cell
\* under the last header named col, None (restval) when the line is shorter
RowGet(hs, cells, col) ==
    LET last == CHOOSE i \in 1..Len(hs) :
                    hs[i] = col /\ \A j \in 1..Len(hs) : hs[j] = col => j <= i
    IN  IF last <= Len(cells) THEN Some(cells[last]) ELSE None

\* CellFloat with float(row[col] or 0): a missing or empty cell counts as 0
CellFloatOrZero(hs, cells, col) ==
    IF col = None THEN None
    ELSE LET cell == RowGet(hs, cells, Val(col))
         IN  IF cell = None THEN Some(0) ELSE ParseFloat(Val(cell))

\* try: float(row[col]) except (ValueError, TypeError, KeyError): None
CellFloat(hs, cells, col) ==
    IF col = None THEN None
    ELSE LET cell == RowGet(hs, cells, Val(col))
         IN  IF cell = None THEN None ELSE ParseFloat(Val(cell))

\* `powers` and `times` after one pass through the row loop
RowPowers(hs, pcol, ps, cells) ==
    LET p == CellFloat(hs, cells, pcol)
    IN  IF p # None THEN Append(ps, Val(p)) ELSE ps

RowTimes(hs, tcol, ts, cells) ==
    LET t == CellFloat(hs, cells, tcol)
    IN  IF t # None THEN Append(ts, Val(t)) ELSE ts

RECURSIVE GCD(_, _)
GCD(a, b) == IF b = 0 THEN a ELSE GCD(b, a % b)

Abs(x) == IF x < 0 THEN -x ELSE x

\* the exact quotient n/d, d > 0, in lowest terms
Rat(n, d) ==
    LET g == GCD(Abs(n), d)
    IN  [num |-> n \div g, den |-> d \div g]

RatMulInt(r, k) == Rat(r.num * k, r.den)

RECURSIVE SumSeq(_)
SumSeq(s) == IF s = <<>> THEN 0 ELSE Head(s) + SumSeq(Tail(s))

\* statistics.mean
mean(s) == Rat(SumSeq(s), Len(s))

\* the loop `for i in range(1, n)` from index i (1-based: i+1) on
RECURSIVE EnergyFrom(_, _, _, _)
EnergyFrom(ts, ps, i, energy) ==
    IF i > Len(ts) THEN energy
    ELSE LET dt == ts[i] - ts[i - 1]
         IN  EnergyFrom(ts, ps, i + 1,
                        IF dt > 0 THEN energy + ps[i] * dt ELSE energy)

\* EnergyFrom without the `if dt > 0` test
RECURSIVE EnergySignedFrom(_, _, _, _)
EnergySignedFrom(ts, ps, i, energy) ==
    IF i > Len(ts) THEN energy
    ELSE EnergySignedFrom(ts, ps, i + 1, energy + ps[i] * (ts[i] - ts[i - 1]))

IntegrateSigned(ts, ps) ==
    LET n == IF Len(ts) < Len(ps) THEN Len(ts) ELSE Len(ps)
    IN  EnergySignedFrom(SubSeq(ts, 1, n), SubSeq(ps, 1, n), 2, 0)

\* rectangle integration of the two lists cut to the shorter length
Integrate(ts, ps) ==
    LET n == IF Len(ts) < Len(ps) THEN Len(ts) ELSE Len(ps)
    IN  EnergyFrom(SubSeq(ts, 1, n), SubSeq(ps, 1, n), 2, 0)

\* the dict parse_power_csv starts from
PowerOut(m, name) ==
    [run_id |-> m.run_id, mode |-> m.mode,
     avg_power_W |-> None, duration_s |-> None, energy_J |-> None,
     powerlog_file |-> Some(name),
     power_col_used |-> None, time_col_used |-> None]

\* out["energy_J"] after the integration block
PrimaryEnergy(o, ts, ps) ==
    IF Len(ts) >= 2 /\ Len(ps) >= 2
    THEN [o EXCEPT !.energy_J = Some(Rat(Integrate(ts, ps), 1))]
    ELSE o

\* FallbackEnergy with `if not out["energy_J"]`: an energy of 0 is replaced
FallbackWhenFalsy(o) ==
    IF (o.energy_J = None \/ o.energy_J = Some(Rat(0, 1)))
       /\ o.avg_power_W # None /\ o.duration_s # None
    THEN [o EXCEPT !.energy_J =
              Some(RatMulInt(Val(o.avg_power_W), Val(o.duration_s)))]
    ELSE o

\* out["energy_J"] after the fallback block
FallbackEnergy(o) ==
    IF o.energy_J = None /\ o.avg_power_W # None /\ o.duration_s # None
    THEN [o EXCEPT !.energy_J =
              Some(RatMulInt(Val(o.avg_power_W), Val(o.duration_s)))]
    ELSE o

\* everything after the row loop
PowerSummary(o, ts, ps) ==
    LET o1 == IF ps # <<>> THEN [o EXCEPT !.avg_power_W = Some(mean(ps))] ELSE o
        o2 == IF Len(ts) >= 2
              THEN [o1 EXCEPT !.duration_s = Some(ts[Len(ts)] - ts[1])]
              ELSE o1
    IN  FallbackEnergy(PrimaryEnergy(o2, ts, ps))

RECURSIVE FoldPowers(_, _, _, _)
FoldPowers(hs, pcol, ps, rs) ==
    IF rs = <<>> THEN ps
    ELSE FoldPowers(hs, pcol, RowPowers(hs, pcol, ps, Head(rs)), Tail(rs))

RECURSIVE FoldTimes(_, _, _, _)
FoldTimes(hs, tcol, ts, rs) ==
    IF rs = <<>> THEN ts
    ELSE FoldTimes(hs, tcol, RowTimes(hs, tcol, ts, Head(rs)), Tail(rs))

\* the whole function on a file with header row hs and data rows rs
parse_power_csv(name, hs, rs) ==
    LET m == POWER_RE(name)
    IN  IF m = None THEN Raised
        ELSE IF hs = <<>> THEN Returned(PowerOut(Val(m), name))
        ELSE LET tcol == _pick_col(hs, TimeMust, TimePrefer)
                 pcol == _pick_col(hs, PowerMust, PowerPrefer)
                 o == [PowerOut(Val(m), name) EXCEPT !.power_col_used = pcol,
                                                     !.time_col_used = tcol]
             IN  Returned(PowerSummary(o, FoldTimes(hs, tcol, <<>>, rs),
                                          FoldPowers(hs, pcol, <<>>, rs)))

----------------------------------------------------------------------------
(* Bounds and input sets *)

MaxLines == 5

MaxHeaders == 3

MaxRows == 3

MaxRuns == 2

\* names handed to parse_summary
SummaryNames ==
    {<<"s","u","m","m","a","r","y","_","a","_","A","2","B",".","t","x","t">>, <<"s","u","m","m","a","r","y","_","a","_","A","2","B","_","B","2","A",".","t","x","t">>,
     <<"s","u","m","m","a","r","y","_","a","_","F","O","O",".","t","x","t">>, <<"s","u","m","m","a","r","y","_","_","B","O","T","H",".","t","x","t">>, <<"s","u","m","m","a","r","y","_","a","_","A","2","B",".","c","s","v">>,
     <<"r","u","n","_","a","_","A","2","B",".","c","s","v">>}

\* lines of a summary text
Lines ==
    {<<"A -> B">>, <<" ", "B -> A", " ">>, <<"A -> B", "txt">>,
     <<" ", "H_before:", " ", "3">>, <<"H_after:", " ", "1", "txt", "9">>,
     <<"dH:", " ", "-2">>, <<"dH:", " ", "1">>, <<"dH:", "txt">>,
     <<"Order Effect", ":", " ", "5">>, <<"Order Effect">>,
     <<"txt", "9">>, <<>>}

\* header names of a power log
HElapsed == <<"E","l","a","p","s","e","d"," ","T","i","m","e"," ","(","s","e","c",")">>

HProcessor == <<"C","u","m","u","l","a","t","i","v","e"," ","P","r","o","c","e","s","s","o","r"," ","P","o","w","e","r","_","0","(","W","a","t","t",")">>

HeaderNames ==
    {HElapsed, HProcessor, <<"S","y","s","t","e","m"," ","T","i","m","e">>, <<"I","A"," ","P","o","w","e","r","_","0","(","W","a","t","t",")">>,
     <<"C","P","U"," ","U","t","i","l","i","z","a","t","i","o","n","(","%",")">>, <<"G","T"," ","W","a","t","t">>}

\* (must_contain_any, prefer_contain_any) pairs _pick_col is called with
TokenPairs ==
    {<<TimeMust, TimePrefer>>, <<PowerMust, PowerPrefer>>, <<PowerMust, {}>>}

SeqsUpTo(S, n) == UNION {[1..k -> S] : k \in 0..n}

\* names handed to parse_power_csv
PowerNames ==
    {<<"r","u","n","_","a","_","A","2","B",".","c","s","v">>, <<"r","u","n","_","a","_","F","O","O",".","c","s","v">>, <<"r","u","n","_","_","B","2","A",".","c","s","v">>, <<"s","u","m","m","a","r","y","_","a","_","A","2","B",".","t","x","t">>}

\* header rows of the power logs read; <<>> is a file without a header row
HeaderRows ==
    {<<HProcessor, HElapsed>>, <<HElapsed, HProcessor>>, <<HElapsed>>,
     <<<<"G","T"," ","W","a","t","t">>>>, <<>>}

TimeCells == {"0", "1", "2", "abc"}

PowerCells == {"10", "20", "30", "-5", ""}

\* the cell texts tried under header h when tcol is the time column
CellsUnder(h, tcol) == IF Some(h) = tcol THEN TimeCells ELSE PowerCells

RECURSIVE RowsOfLen(_, _, _)
RowsOfLen(hs, tcol, k) ==
    IF k = 0 THEN {<<>>}
    ELSE {Append(r, c) : r \in RowsOfLen(hs, tcol, k - 1), c \in CellsUnder(hs[k], tcol)}

\* the data lines of a file with header row hs: at least one cell (the
\* reader skips empty lines), at most one cell per header
RowsUnder(hs, tcol) == UNION {RowsOfLen(hs, tcol, k) : k \in 1..Len(hs)}

----------------------------------------------------------------------------
(* The variables of the functions a specification does not run *)

NoSummary == section = Idle /\ line = Idle /\ nlines = Idle

NoPick == must_contain_any = Idle /\ prefer_contain_any = Idle /\ picked = Idle

NoPower ==
    /\ power_col = Idle /\ time_col = Idle /\ times = Idle /\ powers = Idle
    /\ rowsRead = Idle

NoMain ==
    /\ files = Idle /\ summary_files = Idle /\ power_files = Idle
    /\ rows = Idle /\ done = Idle /\ opened = Idle /\ runs = Idle
    /\ prevOutput = Idle

----------------------------------------------------------------------------
(* parse_summary, step by step *)

InitSummary ==
    /\ path \in SummaryNames
    /\ pc = "summary:match"
    /\ out = Idle
    /\ section = "None"
    /\ line = <<>>
    /\ nlines = 0
    /\ headers = Idle
    /\ NoPick
    /\ NoPower
    /\ NoMain

\* m = SUMMARY_RE.match(path.name); raise or build `out`
SummaryMatch ==
    /\ pc = "summary:match"
    /\ LET m == SUMMARY_RE(path)
       IN  IF m = None
           THEN pc' = "summary:raised" /\ out' = out
           ELSE pc' = "summary:scan" /\ out' = SummaryOut(Val(m), path)
    /\ UNCHANGED <<path, summaryVars, headers, pickVars, powerVars, mainVars>>

\* one pass through `for line in text`
SummaryLine ==
    /\ pc = "summary:scan"
    /\ nlines < MaxLines
    /\ \E l \in Lines :
        /\ line' = l
        /\ section' = ScanSection(section, l)
        /\ out' = ScanOut(section, out, l)
    /\ nlines' = nlines + 1
    /\ UNCHANGED <<path, pc, headers, pickVars, powerVars, mainVars>>

\* end of the text: the order-effect rule, return
SummaryReturn ==
    /\ pc = "summary:scan"
    /\ out' = DeriveOrderEffect(out)
    /\ pc' = "summary:done"
    /\ UNCHANGED <<path, summaryVars, headers, pickVars, powerVars, mainVars>>

NextSummary == SummaryMatch \/ SummaryLine \/ SummaryReturn

SpecSummary == InitSummary /\ [][NextSummary]_vars

----------------------------------------------------------------------------
(* _pick_col as a call *)

InitPick ==
    /\ headers \in SeqsUpTo(HeaderNames, MaxHeaders)
    /\ \E tp \in TokenPairs :
        must_contain_any = tp[1] /\ prefer_contain_any = tp[2]
    /\ picked = Idle
    /\ pc = "pick:call"
    /\ path = Idle
    /\ out = Idle
    /\ NoSummary
    /\ NoPower
    /\ NoMain

PickCol ==
    /\ pc = "pick:call"
    /\ picked' = _pick_col(headers, must_contain_any, prefer_contain_any)
    /\ pc' = "pick:returned"
    /\ UNCHANGED <<path, out, summaryVars, headers, must_contain_any,
                   prefer_contain_any, powerVars, mainVars>>

NextPick == PickCol

SpecPick == InitPick /\ [][NextPick]_vars

----------------------------------------------------------------------------
(* parse_power_csv, step by step *)

InitPower ==
    /\ path \in PowerNames
    /\ headers \in HeaderRows
    /\ pc = "power:match"
    /\ out = Idle
    /\ power_col = None
    /\ time_col = None
    /\ times = <<>>
    /\ powers = <<>>
    /\ rowsRead = <<>>
    /\ NoSummary
    /\ NoPick
    /\ NoMain

\* m = POWER_RE.match(path.name); raise or build `out`
PowerMatch ==
    /\ pc = "power:match"
    /\ LET m == POWER_RE(path)
       IN  IF m = None
           THEN pc' = "power:raised" /\ out' = out
           ELSE pc' = "power:open" /\ out' = PowerOut(Val(m), path)
    /\ UNCHANGED <<path, headers, summaryVars, pickVars, powerVars, mainVars>>

\* open the file, read the header row, pick the two columns
PowerOpen ==
    /\ pc = "power:open"
    /\ IF headers = <<>>
       THEN /\ pc' = "power:done"
            /\ UNCHANGED <<out, power_col, time_col>>
       ELSE /\ time_col' = _pick_col(headers, TimeMust, TimePrefer)
            /\ power_col' = _pick_col(headers, PowerMust, PowerPrefer)
            /\ out' = [out EXCEPT !.power_col_used = power_col',
                                  !.time_col_used = time_col']
            /\ pc' = "power:rows"
    /\ UNCHANGED <<path, headers, summaryVars, pickVars, times, powers,
                   rowsRead, mainVars>>

\* one pass through `for row in reader`
PowerRow ==
    /\ pc = "power:rows"
    /\ Len(rowsRead) < MaxRows
    /\ \E cells \in RowsUnder(headers, time_col) :
        /\ rowsRead' = Append(rowsRead, cells)
        /\ powers' = RowPowers(headers, power_col, powers, cells)
        /\ times' = RowTimes(headers, time_col, times, cells)
    /\ UNCHANGED <<path, out, pc, headers, summaryVars, pickVars, power_col,
                   time_col, mainVars>>

\* end of the file: average, duration, energy, return
PowerReturn ==
    /\ pc = "power:rows"
    /\ out' = PowerSummary(out, times, powers)
    /\ pc' = "power:done"
    /\ UNCHANGED <<path, headers, summaryVars, pickVars, powerVars, mainVars>>

NextPower == PowerMatch \/ PowerOpen \/ PowerRow \/ PowerReturn

SpecPower == InitPower /\ [][NextPower]_vars

----------------------------------------------------------------------------
(* main *)

OUTPUT_CSV == <<"a","g","g","r","e","g","a","t","e","_","r","e","s","u","l","t","s",".","c","s","v">>

\* the characters of file names in code-point order, for string comparison
Ascii ==
    <<".", "0", "1", "2", "3", "4", "5", "6", "7", "8", "9",
      "A", "B", "C", "D", "E", "F", "G", "H", "I", "J", "K", "L", "M",
      "N", "O", "P", "Q", "R", "S", "T", "U", "V", "W", "X", "Y", "Z",
      "_",
      "a", "b", "c", "d", "e", "f", "g", "h", "i", "j", "k", "l", "m",
      "n", "o", "p", "q", "r", "s", "t", "u", "v", "w", "x", "y", "z">>

Code(c) == CHOOSE i \in 1..Len(Ascii) : Ascii[i] = c

\* a < b for two paths of the logs directory
RECURSIVE StrLess(_, _)
StrLess(a, b) ==
    IF b = <<>> THEN FALSE
    ELSE IF a = <<>> THEN TRUE
    ELSE IF Head(a) = Head(b) THEN StrLess(Tail(a), Tail(b))
    ELSE Code(Head(a)) < Code(Head(b))

RECURSIVE Insert(_, _)
Insert(x, s) ==
    IF s = <<>> THEN <<x>>
    ELSE IF StrLess(x, Head(s)) THEN <<x>> \o s
    ELSE <<Head(s)>> \o Insert(x, Tail(s))

\* main without the call of sorted
Unsorted(s) == s

\* sorted(...)
RECURSIVE sorted(_)
sorted(s) == IF s = <<>> THEN <<>> ELSE Insert(Head(s), sorted(Tail(s)))

Absent == [absent |-> TRUE]

\* the names of the files in the logs directory
Listing(fs) == {n \in DOMAIN fs : fs[n] # Absent}

\* LOGS_DIR.glob(pattern), as the set of names it yields
Glob(fs, prefix, ext) == {n \in Listing(fs) : GlobMatch(n, prefix, ext)}

\* the orders in which a glob may yield the names of S
Orders(S) ==
    {s \in [1..Cardinality(S) -> S] : \A i, j \in DOMAIN s : s[i] = s[j] => i = j}

\* f"run_{s['run_id']}_{s['mode']}.csv"
ExpectedPowerName(s) == <<"r","u","n","_">> \o s.run_id \o <<"_">> \o s.mode \o <<".","c","s","v">>

\* Lookup that falls back to any power log of the same run_id
LookupSameRun(pf, name) ==
    LET m == POWER_RE(name)
        same == {n \in pf : POWER_RE(n) # None
                             /\ Val(POWER_RE(n)).run_id = Val(m).run_id}
    IN  IF name \in pf THEN Some(name)
        ELSE IF m # None /\ same # {} THEN Some(CHOOSE n \in same : TRUE)
        ELSE None

\* power_files.get(expected_power_name)
Lookup(pf, name) == IF name \in pf THEN Some(name) ELSE None

\* the dict main uses when there is no power log
NoPowerLog ==
    [avg_power_W |-> None, duration_s |-> None, energy_J |-> None,
     powerlog_file |-> None, power_col_used |-> None, time_col_used |-> None]

\* the dict appended to `rows`
Row(s, p) ==
    [run_id |-> s.run_id, mode |-> s.mode,
     energy_J |-> p.energy_J, avg_power_W |-> p.avg_power_W,
     duration_s |-> p.duration_s,
     H_before_A2B_bits |-> s.H_before_A2B_bits,
     H_after_A2B_bits |-> s.H_after_A2B_bits,
     delta_H_A2B_bits |-> s.delta_H_A2B_bits,
     H_before_B2A_bits |-> s.H_before_B2A_bits,
     H_after_B2A_bits |-> s.H_after_B2A_bits,
     delta_H_B2A_bits |-> s.delta_H_B2A_bits,
     order_effect_bits |-> s.order_effect_bits,
     summary_file |-> s.summary_file,
     powerlog_file |-> p.powerlog_file,
     power_col_used |-> p.power_col_used,
     time_col_used |-> p.time_col_used]

\* the file main writes: the header line, then one line per row
Csv(rs) == [rows |-> rs]

\* the body of `for sfile in summary_files` for one sfile: what the two
\* parsers return, or Raised when one of them raises
LoopBody(fs, pf, sfile) ==
    LET s == parse_summary(sfile, fs[sfile].text)
    IN  IF s.raised THEN Raised
        ELSE LET pfile == Lookup(pf, ExpectedPowerName(s.value))
             IN  IF pfile = None THEN Returned(Row(s.value, NoPowerLog))
                 ELSE LET p == parse_power_csv(Val(pfile), fs[Val(pfile)].hs,
                                               fs[Val(pfile)].rs)
                      IN  IF p.raised THEN Raised
                          ELSE Returned(Row(s.value, p.value))

\* the files the body reads for one sfile
LoopReads(fs, pf, sfile) ==
    LET m == SUMMARY_RE(sfile)
    IN  IF m = None THEN {}
        ELSE LET pfile == Lookup(pf, ExpectedPowerName(Val(m)))
             IN  IF pfile = None \/ POWER_RE(Val(pfile)) = None THEN {sfile}
                 ELSE {sfile, Val(pfile)}

\* contents of the files of the logs directory
Text1 ==
    <<<<"A -> B">>, <<" ", "H_before:", " ", "3">>,
      <<"H_after:", " ", "1", "txt", "9">>, <<"dH:", " ", "-2">>>>

Text2 == <<<<"A -> B">>, <<"dH:", " ", "1">>, <<" ", "B -> A", " ">>, <<"dH:", " ", "-2">>>>

Log1 ==
    [hs |-> <<HProcessor, HElapsed>>,
     rs |-> <<<<"10", "0">>, <<"20", "1">>, <<"30", "2">>>>]

Log2 == [hs |-> <<HElapsed>>, rs |-> <<<<"0">>>>]

SummaryA == <<"s","u","m","m","a","r","y","_","a","_","A","2","B",".","t","x","t">>

SummaryB == <<"s","u","m","m","a","r","y","_","b","_","B","O","T","H",".","t","x","t">>

SummaryFoo == <<"s","u","m","m","a","r","y","_","a","_","F","O","O",".","t","x","t">>

SummaryShort == <<"s","u","m","m","a","r","y","_","x",".","t","x","t">>

PowerA == <<"r","u","n","_","a","_","A","2","B",".","c","s","v">>

PowerB == <<"r","u","n","_","b","_","B","2","A",".","c","s","v">>

PowerFoo == <<"r","u","n","_","b","_","F","O","O",".","c","s","v">>

MainNames ==
    {SummaryA, SummaryB, SummaryFoo, SummaryShort, PowerA, PowerB, PowerFoo,
     OUTPUT_CSV}

InitMain ==
    /\ \E ca \in {Absent, [text |-> Text1], [text |-> Text2]},
          cb \in {Absent, [text |-> Text2]},
          cf \in {Absent, [text |-> Text1]},
          cs \in {Absent, [text |-> Text1]},
          pa \in {Absent, Log1, Log2},
          pb \in {Absent, Log1},
          pf \in {Absent, Log2},
          co \in {Absent, Csv(<<>>)} :
        files = [n \in MainNames |->
                    IF n = SummaryA THEN ca
                    ELSE IF n = SummaryB THEN cb
                    ELSE IF n = SummaryFoo THEN cf
                    ELSE IF n = SummaryShort THEN cs
                    ELSE IF n = PowerA THEN pa
                    ELSE IF n = PowerB THEN pb
                    ELSE IF n = PowerFoo THEN pf
                    ELSE co]
    /\ pc = "main:start"
    /\ summary_files = <<>>
    /\ power_files = {}
    /\ rows = <<>>
    /\ done = 0
    /\ opened = {}
    /\ runs = 0
    /\ prevOutput = Absent
    /\ path = Idle
    /\ out = Idle
    /\ headers = Idle
    /\ NoSummary
    /\ NoPick
    /\ NoPower

\* mkdir, the two globs, rows = []
MainStart ==
    /\ pc = "main:start"
    /\ \E order \in Orders(Glob(files, <<"s","u","m","m","a","r","y","_">>, <<".","t","x","t">>)) :
        summary_files' = sorted(order)
    /\ power_files' = Glob(files, <<"r","u","n","_">>, <<".","c","s","v">>)
    /\ rows' = <<>>
    /\ done' = 0
    /\ opened' = {}
    /\ prevOutput' = files[OUTPUT_CSV]
    /\ pc' = "main:loop"
    /\ UNCHANGED <<path, out, headers, summaryVars, pickVars, powerVars,
                   files, runs>>

\* one pass through the loop in which a parser raises: main ends there
MainRaise ==
    /\ pc = "main:loop"
    /\ done < Len(summary_files)
    /\ LoopBody(files, power_files, summary_files[done + 1]).raised
    /\ opened' = opened \cup LoopReads(files, power_files, summary_files[done + 1])
    /\ pc' = "main:aborted"
    /\ UNCHANGED <<path, out, headers, summaryVars, pickVars, powerVars,
                   files, summary_files, power_files, rows, done, runs,
                   prevOutput>>

\* one pass through the loop that appends a row
MainRow ==
    /\ pc = "main:loop"
    /\ done < Len(summary_files)
    /\ LET r == LoopBody(files, power_files, summary_files[done + 1])
       IN  /\ ~r.raised
           /\ rows' = Append(rows, r.value)
    /\ opened' = opened \cup LoopReads(files, power_files, summary_files[done + 1])
    /\ done' = done + 1
    /\ UNCHANGED <<path, out, pc, headers, summaryVars, pickVars, powerVars,
                   files, summary_files, power_files, runs, prevOutput>>

\* after the loop: write OUTPUT_CSV
MainWrite ==
    /\ pc = "main:loop"
    /\ done = Len(summary_files)
    /\ files' = [files EXCEPT ![OUTPUT_CSV] = Csv(rows)]
    /\ pc' = "main:written"
    /\ UNCHANGED <<path, out, headers, summaryVars, pickVars, powerVars,
                   summary_files, power_files, rows, done, opened, runs,
                   prevOutput>>

\* the script is run again on the directory as the last run left it
MainAgain ==
    /\ pc \in {"main:written", "main:aborted"}
    /\ runs + 1 < MaxRuns
    /\ runs' = runs + 1
    /\ pc' = "main:start"
    /\ UNCHANGED <<path, out, headers, summaryVars, pickVars, powerVars,
                   files, summary_files, power_files, rows, done, opened,
                   prevOutput>>

NextMain == MainStart \/ MainRaise \/ MainRow \/ MainWrite \/ MainAgain

SpecMain == InitMain /\ [][NextMain]_vars

----------------------------------------------------------------------------
(* The three entry points that check a file name, side by side *)

InitParse == InitSummary \/ InitPower \/ InitMain

NextParse == NextSummary \/ NextPower \/ NextMain

SpecParse == InitParse /\ [][NextParse]_vars

----------------------------------------------------------------------------
(* Properties *)

\* C1: when parse_summary returns, order_effect_bits is the difference
\* delta_H_A2B_bits - delta_H_B2A_bits if the scan stored no order-effect
\* value and both deltas are present, absent if the scan stored none and a
\* delta is absent, and the stored value, unchanged, otherwise.
C1_OrderEffectRule ==
    [][pc = "summary:scan" /\ pc' = "summary:done" =>
        LET explicit == out.order_effect_bits
            dA == out.delta_H_A2B_bits
            dB == out.delta_H_B2A_bits
        IN  /\ explicit = None /\ dA # None /\ dB # None
                => out'.order_effect_bits = Some(Val(dA) - Val(dB))
            /\ explicit = None /\ (dA = None \/ dB = None)
                => out'.order_effect_bits = None
            /\ explicit # None => out'.order_effect_bits = explicit
            /\ out'.delta_H_A2B_bits = dA /\ out'.delta_H_B2A_bits = dB]_vars

\* the derived value -2 - 1: no order-effect line of the input carries -3
C1_Witness ==
    /\ pc = "summary:done"
    /\ out.delta_H_A2B_bits = Some(-2)
    /\ out.delta_H_B2A_bits = Some(1)
    /\ out.order_effect_bits = Some(-3)

EntropyFields ==
    {"H_before_A2B_bits", "H_after_A2B_bits", "delta_H_A2B_bits",
     "H_before_B2A_bits", "H_after_B2A_bits", "delta_H_B2A_bits",
     "order_effect_bits"}

SectionPrefixes == {"H_before:", "H_after:", "dH:"}

\* the field a prefixed line of a section is stored in
SectionField(prefix, sec) ==
    CASE prefix = "H_before:" /\ sec = "A2B" -> "H_before_A2B_bits"
      [] prefix = "H_after:" /\ sec = "A2B" -> "H_after_A2B_bits"
      [] prefix = "dH:" /\ sec = "A2B" -> "delta_H_A2B_bits"
      [] prefix = "H_before:" /\ sec = "B2A" -> "H_before_B2A_bits"
      [] prefix = "H_after:" /\ sec = "B2A" -> "H_after_B2A_bits"
      [] prefix = "dH:" /\ sec = "B2A" -> "delta_H_B2A_bits"

\* f is the only field of `out` the step may have changed
OnlyChanged(f) == \A g \in DOMAIN out : g # f => out'[g] = out[g]

\* C9: the scan starts with section none and all fields absent; a step
\* changes the section only on a line that is exactly a section header; a
\* prefixed line changes only its field of the active section, and nothing
\* when the section is none; an Order Effect line sets order_effect_bits
\* whatever the section; any other line changes nothing.
C9_ScanFrame ==
    /\ [](pc = "summary:scan" /\ nlines = 0 =>
            section = "None" /\ \A f \in EntropyFields : out[f] = None)
    /\ [][pc = "summary:scan" /\ nlines' = nlines + 1 =>
            LET ls == Strip(line')
                first == IF ls = <<>> THEN "" ELSE ls[1]
            IN  /\ section' = IF ls = <<"A -> B">> THEN "A2B"
                              ELSE IF ls = <<"B -> A">> THEN "B2A"
                              ELSE section
                /\ first \in SectionPrefixes /\ section = "None" => out' = out
                /\ first \in SectionPrefixes /\ section # "None" =>
                      /\ OnlyChanged(SectionField(first, section))
                      /\ out'[SectionField(first, section)] = _extract_float(ls)
                /\ first = "Order Effect" =>
                      /\ OnlyChanged("order_effect_bits")
                      /\ out'.order_effect_bits = _extract_float(ls)
                /\ first \notin SectionPrefixes \cup {"Order Effect"} => out' = out]_vars

\* a delta line of section B -> A has been stored beside an A -> B field
C9_Witness ==
    /\ pc = "summary:scan"
    /\ section = "B2A"
    /\ line = <<"dH:", " ", "1">>
    /\ out.delta_H_B2A_bits = Some(1)
    /\ out.H_before_A2B_bits = Some(3)
    /\ out.delta_H_A2B_bits = None

\* C4: _pick_col returns absent iff no header contains a must token in its
\* lowercase form; otherwise the first header, in column order, with a must
\* token and a prefer token if there is one, else the first header with a
\* must token.  For the headers Cumulative Processor Power_0(Watt), Elapsed
\* Time (sec) the power selection is the first and the time selection the
\* second.
C4_PickCol ==
    pc = "pick:returned" =>
        LET hasAny(toks, i) == \E tok \in toks : Contains(Lower(headers[i]), tok)
            M == {i \in 1..Len(headers) : hasAny(must_contain_any, i)}
            P == {i \in M : hasAny(prefer_contain_any, i)}
        IN  /\ picked = None <=> M = {}
            /\ M # {} =>
                 picked = Some(headers[IF P # {} THEN MinOf(P) ELSE MinOf(M)])
            /\ headers = <<HProcessor, HElapsed>> /\ must_contain_any = PowerMust
                 => picked = Some(HProcessor)
            /\ headers = <<HProcessor, HElapsed>> /\ must_contain_any = TimeMust
                 => picked = Some(HElapsed)

\* the preferred header is not the first candidate
C4_Witness ==
    /\ pc = "pick:returned"
    /\ headers = <<<<"S","y","s","t","e","m"," ","T","i","m","e">>, <<"I","A"," ","P","o","w","e","r","_","0","(","W","a","t","t",")">>, HElapsed>>
    /\ must_contain_any = TimeMust
    /\ picked = Some(HElapsed)

RECURSIVE SumFn(_, _, _)
SumFn(f, lo, hi) == IF hi < lo THEN 0 ELSE f[hi] + SumFn(f, lo, hi - 1)

\* the rectangle-rule sum over the collected samples, written as a sum of terms
RectangleSum(ts, ps) ==
    LET n == MinOf({Len(ts), Len(ps)})
        term == [i \in 2..n |->
                    IF ts[i] - ts[i - 1] <= 0 THEN 0
                    ELSE ps[i] * (ts[i] - ts[i - 1])]
    IN  SumFn(term, 2, n)

\* C2: with at least 2 time samples and at least 2 power samples collected,
\* energy_J is the sum over i = 1..n-1 of power[i] * (time[i] - time[i-1]),
\* n the shorter length, an interval with time[i] - time[i-1] <= 0 counting
\* 0; times [0,1,2] with powers [10,20,30] give 50.
C2_RectangleEnergy ==
    pc = "power:done" /\ headers # <<>> /\ Len(times) >= 2 /\ Len(powers) >= 2 =>
        /\ out.energy_J = Some([num |-> RectangleSum(times, powers), den |-> 1])
        /\ times = <<0, 1, 2>> /\ powers = <<10, 20, 30>>
             => out.energy_J = Some([num |-> 50, den |-> 1])

\* unequal lengths and a step back in time: 20 * (2 - 0), the rest cut or 0
C2_Witness ==
    /\ pc = "power:done"
    /\ times = <<2, 0, 2>>
    /\ powers = <<10, 30, 20>>
    /\ out.energy_J = Some([num |-> 40, den |-> 1])

\* r is the product of the rational a and the integer k
IsProduct(r, a, k) == r.num * a.den = a.num * k * r.den /\ r.den > 0

\* C3: when fewer than 2 time samples or fewer than 2 power samples were
\* collected, energy_J is avg_power_W * duration_s if both are present and
\* absent otherwise; when the integration ran, energy_J is its value, 0
\* included.
C3_FallbackEnergy ==
    pc = "power:done" /\ headers # <<>> =>
        IF Len(times) >= 2 /\ Len(powers) >= 2
        THEN out.energy_J = Some([num |-> RectangleSum(times, powers), den |-> 1])
        ELSE IF out.avg_power_W # None /\ out.duration_s # None
        THEN /\ out.energy_J # None
             /\ IsProduct(Val(out.energy_J), Val(out.avg_power_W), Val(out.duration_s))
        ELSE out.energy_J = None

\* one power sample, two time samples: 10 * (2 - 0)
C3_Witness ==
    /\ pc = "power:done"
    /\ powers = <<10>>
    /\ times = <<0, 2>>
    /\ out.energy_J = Some([num |-> 20, den |-> 1])

\* the name follows <prefix><run_id>_<mode><ext> with a non-empty run_id
WellNamed(name, prefix, ext) ==
    /\ StartsWith(name, prefix)
    /\ \E mo \in Modes :
        /\ EndsWith(name, <<"_">> \o mo \o ext)
        /\ Len(name) > Len(prefix) + 1 + Len(mo) + Len(ext)

\* the valid cells of column col in the rows read, in row order
ValidCells(col) ==
    IF col = None THEN <<>>
    ELSE LET at == CHOOSE i \in 1..Len(headers) : headers[i] = Val(col)
             valid(r) == at <= Len(r) /\ ParseFloat(r[at]) # None
             kept == SelectSeq(rowsRead, valid)
         IN  [i \in 1..Len(kept) |-> Val(ParseFloat(kept[i][at]))]

C10_EnergyNonNegative ==
    pc = "power:done" /\ headers # <<>>
    /\ (\A i \in 1..Len(powers) : powers[i] >= 0)
    /\ out.energy_J # None
        => Val(out.energy_J).num >= 0

\* a file of the directory
Present(n) == n \in DOMAIN files /\ files[n] # Absent

\* the power-log name that belongs to a summary name
PowerNameFor(sfile) == <<"r","u","n","_">> \o SubSeq(sfile, 9, Len(sfile) - 4) \o <<".","c","s","v">>

\* C5: a summary whose power log run_<run_id>_<mode>.csv does not exist
\* does not make the run fail and gives one row with its entropy fields,
\* and energy_J, avg_power_W, duration_s, powerlog_file, power_col_used and
\* time_col_used absent, whatever other power logs there are.
C5_MissingPowerLog ==
    /\ pc = "main:aborted" =>
         ~WellNamed(summary_files[done + 1], <<"s","u","m","m","a","r","y","_">>, <<".","t","x","t">>)
    /\ pc \in {"main:loop", "main:written", "main:aborted"} =>
        /\ Len(rows) = done
        /\ \A i \in 1..Len(rows) :
            LET r == rows[i]
                sfile == summary_files[i]
            IN  ~Present(PowerNameFor(sfile)) =>
                  /\ r.summary_file = sfile
                  /\ \A f \in {"energy_J", "avg_power_W", "duration_s",
                               "powerlog_file", "power_col_used", "time_col_used"} :
                        r[f] = None
                  /\ \A f \in EntropyFields :
                        r[f] = parse_summary(sfile, files[sfile].text).value[f]
                  /\ files[sfile].text = Text1 =>
                        /\ r.H_before_A2B_bits = Some(3)
                        /\ r.H_after_A2B_bits = Some(1)
                        /\ r.delta_H_A2B_bits = Some(-2)

\* run_b_B2A.csv is there, run_b_BOTH.csv is not
C5_Witness ==
    /\ pc = "main:written"
    /\ Present(PowerB)
    /\ \E i \in 1..Len(rows) :
        /\ rows[i].summary_file = SummaryB
        /\ rows[i].energy_J = None
        /\ rows[i].powerlog_file = None
        /\ rows[i].order_effect_bits = Some(3)

\* C6: parse_summary and parse_power_csv raise on a name that does not
\* follow the convention, before reading any content; in main, such a
\* summary ends the run with OUTPUT_CSV as it was when the run started.
C6_BadNameAborts ==
    /\ pc \in {"summary:scan", "summary:done"} => WellNamed(path, <<"s","u","m","m","a","r","y","_">>, <<".","t","x","t">>)
    /\ pc = "summary:raised" =>
         ~WellNamed(path, <<"s","u","m","m","a","r","y","_">>, <<".","t","x","t">>) /\ nlines = 0 /\ out = Idle
    /\ pc \in {"power:open", "power:rows", "power:done"} =>
         WellNamed(path, <<"r","u","n","_">>, <<".","c","s","v">>)
    /\ pc = "power:raised" =>
         ~WellNamed(path, <<"r","u","n","_">>, <<".","c","s","v">>) /\ rowsRead = <<>> /\ out = Idle
    /\ pc \in {"main:loop", "main:written", "main:aborted"} =>
         \A i \in 1..done : WellNamed(summary_files[i], <<"s","u","m","m","a","r","y","_">>, <<".","t","x","t">>)
    /\ pc = "main:loop" /\ done < Len(summary_files) =>
         files[OUTPUT_CSV] = prevOutput
    /\ pc = "main:aborted" =>
         /\ ~WellNamed(summary_files[done + 1], <<"s","u","m","m","a","r","y","_">>, <<".","t","x","t">>)
         /\ summary_files[done + 1] \notin opened
         /\ files[OUTPUT_CSV] = prevOutput

\* a run that had a row in hand when it met summary_a_FOO.txt
C6_Witness ==
    /\ pc = "main:aborted"
    /\ Len(rows) = 1
    /\ summary_files[done + 1] = SummaryFoo
    /\ files[OUTPUT_CSV] = Absent

\* C8: a run that completes writes one row per summary file of the
\* directory, in ascending order of file name; OUTPUT_CSV is not among the
\* files a run discovers; a second run on the directory writes what the
\* first wrote.
C8_Idempotent ==
    /\ pc # "main:start" =>
        /\ \A i \in 1..Len(summary_files) : summary_files[i] # OUTPUT_CSV
        /\ OUTPUT_CSV \notin power_files
    /\ pc = "main:written" =>
        LET S == {n \in MainNames :
                    /\ Present(n)
                    /\ StartsWith(n, <<"s","u","m","m","a","r","y","_">>) /\ EndsWith(n, <<".","t","x","t">>)
                    /\ \E k \in 9..(Len(n) - 4) : n[k] = "_"}
        IN  /\ Len(rows) = Cardinality(S)
            /\ {rows[i].summary_file : i \in 1..Len(rows)} = S
            /\ \A i, j \in 1..Len(rows) :
                  i < j => StrLess(rows[i].summary_file, rows[j].summary_file)
            /\ files[OUTPUT_CSV] = Csv(rows)
            /\ runs >= 1 => files[OUTPUT_CSV] = prevOutput

\* the second run has rewritten the two rows of the first
C8_Witness ==
    /\ pc = "main:written"
    /\ runs = 1
    /\ Len(rows) = 2
    /\ prevOutput = Csv(rows)
====
